---- MODULE Spec2Model ----
(***************************************************************************)
(* Model of the WebSocket JSON-RPC transport of                            *)
(* api-client/jsonrpc-client/src/transports/ws.rs.                         *)
(*                                                                         *)
(* State: the id counter, the pendings map (RequestId -> oneshot sender),  *)
(* the subscriptions map (SubscriptionId -> unbounded sender), the writer  *)
(* channel (outbound), the frames written to the socket (wire), the        *)
(* position of the ws_task driver, the position of every caller of         *)
(* send/execute, and the receiving half of every subscription channel.     *)
(***************************************************************************)
EXTENDS Integers, Sequences, FiniteSets, TLC

\* ---- bounds ----
NumCallers == 2
NumSubIds == 1
MaxSinks == 2
MaxFrames == 2

\* ---- domains ----
Callers == 1..NumCallers
\* RequestId is usize: prepare hands out 1, 2, ...; a caller of execute picks
\* its own id, here the one id prepare does not hand out.
Ids == 0..NumCallers
ExecIds == {0}
\* Ids the application subscribes to, and one more the peer may name.
SubIds == 1..NumSubIds
NotifIds == 1..(NumSubIds + 1)
Sinks == 1..MaxSinks
NoCaller == 0
\* Tasks that take the two mutexes: the callers of send, ws_task, and the
\* thread that calls subscribe and unsubscribe.
NoTask == 0
DriverTask == NumCallers + 1
PubsubTask == NumCallers + 2
NoSink == 0

Frame(k, i, v) == [kind |-> k, id |-> i, val |-> v]

\* Inbound websocket messages (tungstenite Message) the peer can send.
\* A text frame is named by the JSON shape it carries: a single response, a
\* batch (filed under the id of its first output), an empty batch, a
\* notification with params [id, result], a notification whose params are an
\* array of another shape, or no array, or whose id is a number that is no
\* u64, and text that is neither.  The payload of a notification or a ping is
\* its position in the inbound stream (see Payload).
TextFrames ==
    {Frame("RespSingle", i, 0) : i \in Ids}
    \cup {Frame("RespBatch", 1, 0), Frame("RespBatchEmpty", 0, 0)}
    \cup {Frame("Notif", s, 0) : s \in NotifIds}
    \cup {Frame("NotifUnsupported", 0, 0), Frame("NotifNotArray", 0, 0),
          Frame("NotifBadNum", 0, 0), Frame("Garbage", 0, 0)}

ControlFrames ==
    {Frame("Binary", 0, 0), Frame("Close", 0, 0), Frame("Ping", 0, 0),
     Frame("Pong", 0, 0)}

InFrames == TextFrames \cup ControlFrames

NoResult == Frame("None", 0, 0)
Canceled == Frame("Canceled", 0, 0)
ParseError == Frame("ParseError", 0, 0)
NoFrame == Frame("-", 0, 0)

VARIABLES
    driver,         \* position of ws_task
    nextId,         \* WebSocketTransport.id (AtomicUsize)
    pendings,       \* Pendings: id -> caller owning the oneshot receiver
    subscriptions,  \* Subscriptions: id -> channel created by subscribe
    outbound,       \* writer channel (writer_tx -> writer_rx)
    wire,           \* frames forwarded into the websocket sink
    pc,             \* position of each caller
    callId,         \* id each caller uses
    result,         \* oneshot slot of each caller / value returned to it
    nextSink,       \* index of the channel the next subscribe creates
    sinkId,         \* subscription id each channel was created for
    sender,         \* sender half of each channel: in the map, or dropped
    queue,          \* values buffered in each channel
    got,            \* values each consumer has pulled
    eos,            \* the consumer has observed end-of-stream
    handleDropped,  \* the consumer handle (receiver half) has been dropped
    closeSeen,      \* a Close frame has been handled
    nframes,        \* number of inbound stream items handled
    pendingsLock,   \* task holding the MutexGuard of pendings
    subscriptionsLock, \* task holding the MutexGuard of subscriptions
    dispatch,       \* where ws_task is inside handle_incoming_msg
    last            \* the operation that produced the current state

vars == <<driver, nextId, pendings, subscriptions, outbound, wire, pc, callId,
          result, nextSink, sinkId, sender, queue, got, eos,
          handleDropped, closeSeen, nframes, pendingsLock,
          subscriptionsLock, dispatch, last>>

callerVars == <<pc, callId, result>>
sinkVars == <<nextSink, sinkId, sender, queue, got, eos, handleDropped>>
lockVars == <<pendingsLock, subscriptionsLock, dispatch>>

\* read_from_ws is suspended at the stream's next item.
AtRead == [at |-> "read", msg |-> NoFrame, caller |-> NoCaller]

Op(o, m) == [op |-> o, msg |-> m]

\* writer_rx is owned by ws_task: it exists until the task ends.
ReceiverAlive == driver \in {"connecting", "open"}

\* The payload carried by the next inbound stream item.
Payload == nframes + 1

Init ==
    /\ driver = "connecting"
    /\ nextId = 1
    /\ pendings = [i \in Ids |-> NoCaller]
    /\ subscriptions = [i \in NotifIds |-> NoSink]
    /\ outbound = <<>>
    /\ wire = <<>>
    /\ pc = [c \in Callers |-> "idle"]
    /\ callId = [c \in Callers |-> 0]
    /\ result = [c \in Callers |-> NoResult]
    /\ nextSink = 1
    /\ sinkId = [s \in Sinks |-> 0]
    /\ sender = [s \in Sinks |-> "none"]
    /\ queue = [s \in Sinks |-> <<>>]
    /\ got = [s \in Sinks |-> <<>>]
    /\ eos = [s \in Sinks |-> FALSE]
    /\ handleDropped = [s \in Sinks |-> FALSE]
    /\ closeSeen = FALSE
    /\ nframes = 0
    /\ pendingsLock = NoTask
    /\ subscriptionsLock = NoTask
    /\ dispatch = AtRead
    /\ last = Op("new", NoFrame)

\* ---- Transport facade ----

\* Callers are interchangeable: they start their calls in index order.
InTurn(c) == \A d \in Callers : d < c => pc[d] # "idle"

\* A prepare that only loads the counter: the increment is lost.
CounterAfterFetchAdd_lost ==
    nextId

\* Transport::prepare: the counter after self.id.fetch_add(1, AcqRel)
CounterAfterFetchAdd ==
    nextId + 1

\* Transport::prepare: id = self.id.fetch_add(1)
prepare(c) ==
    /\ pc[c] = "idle"
    /\ InTurn(c)
    /\ pc' = [pc EXCEPT ![c] = "prepared"]
    /\ callId' = [callId EXCEPT ![c] = nextId]
    /\ nextId' = CounterAfterFetchAdd
    /\ last' = Op("call", NoFrame)
    /\ UNCHANGED <<driver, pendings, subscriptions, outbound, wire, result,
                   sinkVars, closeSeen, nframes>>
    /\ UNCHANGED lockVars

\* A superseded sender that is kept alive: its receiver is never woken.
PcAfterSenderDrop_leak(o) ==
    pc

\* Dropping the oneshot sender caller o waits on: rx.await yields
\* Err(Canceled) and `.unwrap()` panics.
PcAfterSenderDrop(o) ==
    IF o # NoCaller /\ pc[o] = "awaiting" THEN [pc EXCEPT ![o] = "panicked"] ELSE pc

ResultAfterSenderDrop(o) ==
    IF o # NoCaller /\ pc[o] \in {"registered", "awaiting"}
    THEN [result EXCEPT ![o] = Canceled] ELSE result

\* A send_request that enqueues its frame without having inserted its sender.
PendingsAfterRegister_skipped(c, id) ==
    pendings

\* pendings.lock().insert(id, tx)
PendingsAfterRegister(c, id) ==
    [pendings EXCEPT ![id] = c]

\* send_request, first half: oneshot::channel(); pendings.lock().insert(id, tx).
\* Reached from send (id from prepare) or from execute with a caller-chosen id.
\* insert returns the superseded sender, which is dropped on the spot.
send_request_register(c, id) ==
    /\ \/ pc[c] = "prepared" /\ id = callId[c]
       \/ pc[c] = "idle" /\ id \in ExecIds /\ InTurn(c)
    /\ pendings' = PendingsAfterRegister(c, id)
    /\ pc' = [PcAfterSenderDrop(pendings[id]) EXCEPT ![c] = "registered"]
    /\ result' = ResultAfterSenderDrop(pendings[id])
    /\ callId' = [callId EXCEPT ![c] = id]
    /\ last' = Op("call", NoFrame)
    /\ UNCHANGED <<driver, nextId, subscriptions, outbound, wire,
                   sinkVars, closeSeen, nframes>>
    /\ UNCHANGED lockVars

\* rx.await.unwrap() on the caller's oneshot slot.
PcAtAwait(c) ==
    IF result[c] = NoResult THEN "awaiting"
    ELSE IF result[c] = Canceled THEN "panicked"
    ELSE "returned"

\* send_request, second half: sender.unbounded_send(Text(request)).expect(..)
\* (panics once writer_rx is gone), then rx.await.unwrap().
send_request_enqueue(c) ==
    /\ pc[c] = "registered"
    /\ IF ReceiverAlive
       THEN /\ outbound' = Append(outbound, Frame("Call", callId[c], 0))
            /\ pc' = [pc EXCEPT ![c] = PcAtAwait(c)]
       ELSE /\ pc' = [pc EXCEPT ![c] = "panicked"]
            /\ UNCHANGED outbound
    /\ last' = Op("call", NoFrame)
    /\ UNCHANGED <<driver, nextId, pendings, subscriptions, wire, callId,
                   result, sinkVars, closeSeen, nframes>>
    /\ UNCHANGED lockVars

\* A send future whose drop takes its entry out of the correlator.
PendingsAfterAbandon_deregister(c) ==
    IF pendings[callId[c]] = c THEN [pendings EXCEPT ![callId[c]] = NoCaller]
    ELSE pendings

\* Dropping the send_request future drops rx only: the map is not touched.
PendingsAfterAbandon(c) ==
    pendings

\* The caller drops the future returned by send while it is suspended at
\* rx.await (cancellation or timeout): the oneshot receiver is dropped.
abandon(c) ==
    /\ pc[c] = "awaiting"
    /\ pc' = [pc EXCEPT ![c] = "abandoned"]
    /\ pendings' = PendingsAfterAbandon(c)
    /\ last' = Op("call", NoFrame)
    /\ UNCHANGED <<driver, nextId, subscriptions, outbound, wire,
                   callId, result, sinkVars, closeSeen, nframes>>
    /\ UNCHANGED lockVars

\* ---- PubsubTransport ----

\* subscribe: the sender states after subscriptions.lock().insert(id, tx);
\* the sender insert returns (the one id was bound to) is dropped.
SenderAfterSubscribe(id) ==
    [s \in Sinks |->
        IF s = nextSink THEN "live"
        ELSE IF s = subscriptions[id] THEN "replaced"
        ELSE sender[s]]

\* An insert that keeps the entry already bound to id (entry().or_insert).
SubscriptionsAfterSubscribe_keepOld(id) ==
    IF subscriptions[id] # NoSink THEN subscriptions
    ELSE [subscriptions EXCEPT ![id] = nextSink]

\* subscribe: the map after subscriptions.lock().insert(id, tx)
SubscriptionsAfterSubscribe(id) ==
    [subscriptions EXCEPT ![id] = nextSink]

\* subscribe: mpsc::unbounded(); subscriptions.lock().insert(id, tx)
subscribe(id) ==
    /\ nextSink <= MaxSinks
    /\ subscriptions' = SubscriptionsAfterSubscribe(id)
    /\ sender' = SenderAfterSubscribe(id)
    /\ sinkId' = [sinkId EXCEPT ![nextSink] = id]
    /\ nextSink' = nextSink + 1
    /\ last' = Op("subscribe", Frame("-", id, nextSink))
    /\ UNCHANGED <<driver, nextId, pendings, outbound, wire, callerVars,
                   queue, got, eos, handleDropped, closeSeen, nframes>>
    /\ UNCHANGED lockVars

\* A remove that misses the entry and leaves the map as it is.
SubscriptionsAfterUnsubscribe_miss(id) ==
    subscriptions

\* unsubscribe: the map after subscriptions.lock().remove(&id)
SubscriptionsAfterUnsubscribe(id) ==
    [subscriptions EXCEPT ![id] = NoSink]

\* unsubscribe: subscriptions.lock().remove(&id); the removed sender is dropped.
unsubscribe(id) ==
    /\ subscriptions' = SubscriptionsAfterUnsubscribe(id)
    /\ sender' = [s \in Sinks |->
                    IF s = subscriptions[id] THEN "removed" ELSE sender[s]]
    /\ last' = Op("unsubscribe", Frame("-", id, subscriptions[id]))
    /\ UNCHANGED <<driver, nextId, pendings, outbound, wire, callerVars,
                   nextSink, sinkId, queue, got, eos, handleDropped,
                   closeSeen, nframes>>
    /\ UNCHANGED lockVars

\* A receiver that reports the end as soon as its sender is gone, leaving
\* the values still buffered undelivered.
Poll_closedFirst(s) ==
    IF sender[s] \in {"replaced", "removed"} THEN "end"
    ELSE IF queue[s] # <<>> THEN "value"
    ELSE "pending"

\* A receiver that is only closed by unsubscribe: a replaced sender leaks.
Poll_leak(s) ==
    IF queue[s] # <<>> THEN "value"
    ELSE IF sender[s] = "removed" THEN "end"
    ELSE "pending"

\* What polling the receiver of channel s yields: the oldest buffered value,
\* None once the buffer is empty and every sender is gone, Pending otherwise.
Poll(s) ==
    IF queue[s] # <<>> THEN "value"
    ELSE IF sender[s] \in {"replaced", "removed"} THEN "end"
    ELSE "pending"

\* stream.next() on the NotificationStream returned by subscribe.
consumer_next(s) ==
    /\ s < nextSink
    /\ ~handleDropped[s]
    /\ ~eos[s]
    /\ got' = IF Poll(s) = "value"
              THEN [got EXCEPT ![s] = Append(@, Head(queue[s]))] ELSE got
    /\ queue' = IF Poll(s) = "value" THEN [queue EXCEPT ![s] = Tail(@)] ELSE queue
    /\ eos' = [eos EXCEPT ![s] = (Poll(s) = "end")]
    /\ last' = Op("next", Frame(Poll(s), sinkId[s], s))
    /\ UNCHANGED <<driver, nextId, pendings, subscriptions, outbound, wire,
                   callerVars, nextSink, sinkId, sender, handleDropped,
                   closeSeen, nframes>>
    /\ UNCHANGED lockVars

\* The consumer drops the NotificationStream without calling unsubscribe.
consumer_drop(s) ==
    /\ s < nextSink
    /\ ~handleDropped[s]
    /\ handleDropped' = [handleDropped EXCEPT ![s] = TRUE]
    /\ queue' = [queue EXCEPT ![s] = <<>>]
    /\ last' = Op("drop", Frame("-", sinkId[s], s))
    /\ UNCHANGED <<driver, nextId, pendings, subscriptions, outbound, wire,
                   callerVars, nextSink, sinkId, sender, got, eos, closeSeen,
                   nframes>>
    /\ UNCHANGED lockVars

\* ---- Connection driver (ws_task) ----

\* connect_async(..).await succeeded; the stream is split into sink and stream.
handshake_ok ==
    /\ driver = "connecting"
    /\ driver' = "open"
    /\ last' = Op("handshake_ok", NoFrame)
    /\ UNCHANGED <<nextId, pendings, subscriptions, outbound, wire, callerVars,
                   sinkVars, closeSeen, nframes>>
    /\ UNCHANGED lockVars

\* connect_async(..).await failed: `.expect(..)` panics inside the spawned
\* task.  The task's locals (writer_rx among them) are dropped; the maps stay
\* alive through the Arcs held by the transport, which new has returned.
handshake_fail ==
    /\ driver = "connecting"
    /\ driver' = "handshake_failed"
    /\ outbound' = <<>>
    /\ last' = Op("handshake_fail", NoFrame)
    /\ UNCHANGED <<nextId, pendings, subscriptions, wire, callerVars,
                   sinkVars, closeSeen, nframes>>
    /\ UNCHANGED lockVars

\* handle_subscription: does the dispatch panic?  `id.as_u64().unwrap()` on a
\* number that is no u64, and `unbounded_send(..).expect(..)` on a channel
\* whose receiver has been dropped.
SubscriptionPanics(msg) ==
    \/ msg.kind = "NotifBadNum"
    \/ /\ msg.kind = "Notif"
       /\ subscriptions[msg.id] # NoSink
       /\ handleDropped[subscriptions[msg.id]]

\* A channel that hands out the newest value first.
QueueAfterSubscription_front(msg) ==
    IF msg.kind = "Notif" /\ subscriptions[msg.id] # NoSink
    THEN [queue EXCEPT ![subscriptions[msg.id]] = <<Payload>> \o @]
    ELSE queue

\* handle_subscription: the channel buffers after the dispatch.
QueueAfterSubscription(msg) ==
    IF msg.kind = "Notif" /\ subscriptions[msg.id] # NoSink
    THEN [queue EXCEPT ![subscriptions[msg.id]] = Append(@, Payload)]
    ELSE queue

\* A correlator that completes pending calls in registration order: a
\* response is handed to the lowest pending id instead of its own.
ResponseId_oldest(msg) ==
    IF msg.kind \in {"RespSingle", "RespBatch"}
    THEN IF \E i \in Ids : pendings[i] # NoCaller
         THEN CHOOSE i \in Ids : /\ pendings[i] # NoCaller
                                 /\ \A j \in Ids : pendings[j] # NoCaller => i <= j
         ELSE msg.id
    ELSE 0

\* handle_pending_response: the id the frame is filed under.  A frame that
\* does not parse as a Response, and an empty batch, are filed under id 0.
ResponseId(msg) ==
    IF msg.kind \in {"RespSingle", "RespBatch"} THEN msg.id ELSE 0

\* handle_pending_response: the Result<Response> handed to the caller.
ResponseOutcome(msg) ==
    IF msg.kind \in {"RespSingle", "RespBatch", "RespBatchEmpty"}
    THEN msg ELSE ParseError

\* A remove that falls back to the entry of id 0 when the id is unknown.
PendingsAfterResponse_fallback(msg) ==
    IF pendings[ResponseId(msg)] # NoCaller
    THEN [pendings EXCEPT ![ResponseId(msg)] = NoCaller]
    ELSE [pendings EXCEPT ![0] = NoCaller]

\* A resolve that leaves the entry in place when its receiver is gone.
PendingsAfterResponse_keepAbandoned(msg) ==
    IF pendings[ResponseId(msg)] # NoCaller
       /\ pc[pendings[ResponseId(msg)]] = "abandoned"
    THEN pendings
    ELSE [pendings EXCEPT ![ResponseId(msg)] = NoCaller]

\* handle_pending_response: pendings.lock().remove(&id)
PendingsAfterResponse(msg) ==
    [pendings EXCEPT ![ResponseId(msg)] = NoCaller]

\* request.send(response) on the sender remove returned, o being the caller
\* that owns its receiver: the send wakes the awaiting caller; a send to a
\* receiver that has been dropped is logged and ignored.
PcAfterSend(o) ==
    IF o # NoCaller /\ pc[o] = "awaiting"
    THEN [pc EXCEPT ![o] = "returned"] ELSE pc

ResultAfterSend(o, msg) ==
    IF o # NoCaller /\ pc[o] \in {"registered", "awaiting"}
    THEN [result EXCEPT ![o] = ResponseOutcome(msg)]
    ELSE result

\* handle_pending_response: remove(&id) and request.send(response) together.
PcAfterResponse(msg) ==
    PcAfterSend(pendings[ResponseId(msg)])

ResultAfterResponse(msg) ==
    ResultAfterSend(pendings[ResponseId(msg)], msg)

\* A driver that answers a pong with a pong of its own.
OutboundAfterMsg_pongEchoed(msg) ==
    IF msg.kind = "Close" THEN Append(outbound, Frame("Close", 0, 0))
    ELSE IF msg.kind \in {"Ping", "Pong"}
         THEN Append(outbound, Frame("Pong", 0, Payload))
    ELSE outbound

\* A pong that does not carry the payload of the ping it answers.
OutboundAfterMsg_emptyPong(msg) ==
    IF msg.kind = "Close" THEN Append(outbound, Frame("Close", 0, 0))
    ELSE IF msg.kind = "Ping" THEN Append(outbound, Frame("Pong", 0, 0))
    ELSE outbound

\* handle_incoming_msg: the writer channel after a control frame.
OutboundAfterMsg(msg) ==
    IF msg.kind = "Close" THEN Append(outbound, Frame("Close", 0, 0))
    ELSE IF msg.kind = "Ping" THEN Append(outbound, Frame("Pong", 0, Payload))
    ELSE outbound

\* read_from_ws: one Ok(msg) item of the stream, handled by
\* handle_incoming_msg (for text: handle_subscription, then
\* handle_pending_response).  A panic ends ws_task.
handle_incoming_msg(msg) ==
    /\ driver = "open"
    /\ nframes < MaxFrames
    /\ nframes' = nframes + 1
    /\ last' = Op("incoming", [msg EXCEPT !.val = Payload])
    /\ IF msg \in TextFrames
       THEN IF SubscriptionPanics(msg)
            THEN /\ driver' = "ended"
                 /\ outbound' = <<>>
                 /\ UNCHANGED <<pendings, pc, result, queue, closeSeen>>
            ELSE /\ queue' = QueueAfterSubscription(msg)
                 /\ pendings' = PendingsAfterResponse(msg)
                 /\ pc' = PcAfterResponse(msg)
                 /\ result' = ResultAfterResponse(msg)
                 /\ UNCHANGED <<driver, outbound, closeSeen>>
       ELSE /\ outbound' = OutboundAfterMsg(msg)
            /\ closeSeen' = (closeSeen \/ msg.kind = "Close")
            /\ UNCHANGED <<driver, pendings, pc, result, queue>>
    /\ UNCHANGED <<nextId, subscriptions, wire, callId, nextSink,
                   sinkId, sender, got, eos, handleDropped>>
    /\ UNCHANGED lockVars

\* read_from_ws: an Err(err) item of the stream is logged, the loop goes on.
stream_read_error ==
    /\ driver = "open"
    /\ nframes < MaxFrames
    /\ nframes' = nframes + 1
    /\ last' = Op("read_error", NoFrame)
    /\ UNCHANGED <<driver, nextId, pendings, subscriptions, outbound, wire,
                   callerVars, sinkVars, closeSeen>>
    /\ UNCHANGED lockVars

\* read_from_ws: the stream ends; for_each completes, future::select returns
\* and ws_task ends, dropping write_to_ws with whatever the writer channel
\* still holds.
stream_end ==
    /\ driver = "open"
    /\ driver' = "ended"
    /\ outbound' = <<>>
    /\ last' = Op("stream_end", NoFrame)
    /\ UNCHANGED <<nextId, pendings, subscriptions, wire, callerVars,
                   sinkVars, closeSeen, nframes>>
    /\ UNCHANGED lockVars

\* A writer that takes the newest queued frame first.
WireAfterWrite_newest ==
    Append(wire, outbound[Len(outbound)])

\* write_to_ws: forward hands the oldest item of writer_rx to the sink.
WireAfterWrite ==
    Append(wire, Head(outbound))

\* write_to_ws: rx.map(Ok).forward(sink) moves the oldest queued frame into
\* the websocket sink.
write_to_ws ==
    /\ driver = "open"
    /\ outbound # <<>>
    /\ wire' = WireAfterWrite
    /\ outbound' = Tail(outbound)
    /\ last' = Op("write", NoFrame)
    /\ UNCHANGED <<driver, nextId, pendings, subscriptions, callerVars,
                   sinkVars, closeSeen, nframes>>
    /\ UNCHANGED lockVars

\* write_to_ws: the sink reports an error for the oldest queued frame; forward
\* completes, future::select returns and ws_task ends.
write_fail ==
    /\ driver = "open"
    /\ outbound # <<>>
    /\ driver' = "ended"
    /\ outbound' = <<>>
    /\ last' = Op("write_fail", NoFrame)
    /\ UNCHANGED <<nextId, pendings, subscriptions, wire, callerVars,
                   sinkVars, closeSeen, nframes>>
    /\ UNCHANGED lockVars

\* ---- The two mutexes, one guard at a time ----
\* The same operations in the steps their MutexGuards mark out: lock() waits
\* until the mutex is free; a guard is a temporary and is dropped at the end
\* of the statement (of the whole `if let`, when created in its scrutinee).

\* A send_request that keeps the guard in a local across the rest of the call.
PendingsLockAfterInsert_held(c) ==
    c

\* send_request: the guard of `self.pendings.lock().insert(id, tx);` is
\* dropped at the end of the statement.
PendingsLockAfterInsert(c) ==
    NoTask

\* send_request: self.pendings.lock()
send_request_lock(c) ==
    /\ pc[c] = "prepared"
    /\ pendingsLock = NoTask
    /\ pendingsLock' = c
    /\ last' = Op("call", NoFrame)
    /\ UNCHANGED <<driver, nextId, pendings, subscriptions, outbound, wire,
                   callerVars, sinkVars, closeSeen, nframes,
                   subscriptionsLock, dispatch>>

\* send_request: .insert(id, tx) under the guard, then the guard is dropped.
send_request_insert(c) ==
    /\ pc[c] = "prepared"
    /\ pendingsLock = c
    /\ pendings' = PendingsAfterRegister(c, callId[c])
    /\ pc' = [PcAfterSenderDrop(pendings[callId[c]]) EXCEPT ![c] = "registered"]
    /\ result' = ResultAfterSenderDrop(pendings[callId[c]])
    /\ pendingsLock' = PendingsLockAfterInsert(c)
    /\ last' = Op("call", NoFrame)
    /\ UNCHANGED <<driver, nextId, subscriptions, outbound, wire, callId,
                   sinkVars, closeSeen, nframes, subscriptionsLock, dispatch>>

\* subscribe / unsubscribe: self.subscriptions.lock()
subscriptions_lock ==
    /\ subscriptionsLock = NoTask
    /\ subscriptionsLock' = PubsubTask
    /\ last' = Op("lock", NoFrame)
    /\ UNCHANGED <<driver, nextId, pendings, subscriptions, outbound, wire,
                   callerVars, sinkVars, closeSeen, nframes, pendingsLock,
                   dispatch>>

\* subscribe: .insert(id, tx) under the guard; the guard is dropped at the end
\* of the `if` condition.
subscribe_insert(id) ==
    /\ subscriptionsLock = PubsubTask
    /\ nextSink <= MaxSinks
    /\ subscriptions' = SubscriptionsAfterSubscribe(id)
    /\ sender' = SenderAfterSubscribe(id)
    /\ sinkId' = [sinkId EXCEPT ![nextSink] = id]
    /\ nextSink' = nextSink + 1
    /\ subscriptionsLock' = NoTask
    /\ last' = Op("subscribe", Frame("-", id, nextSink))
    /\ UNCHANGED <<driver, nextId, pendings, outbound, wire, callerVars,
                   queue, got, eos, handleDropped, closeSeen, nframes,
                   pendingsLock, dispatch>>

\* unsubscribe: .remove(&id) under the guard, then the guard is dropped.
unsubscribe_remove(id) ==
    /\ subscriptionsLock = PubsubTask
    /\ subscriptions' = SubscriptionsAfterUnsubscribe(id)
    /\ sender' = [s \in Sinks |->
                    IF s = subscriptions[id] THEN "removed" ELSE sender[s]]
    /\ subscriptionsLock' = NoTask
    /\ last' = Op("unsubscribe", Frame("-", id, subscriptions[id]))
    /\ UNCHANGED <<driver, nextId, pendings, outbound, wire, callerVars,
                   nextSink, sinkId, queue, got, eos, handleDropped,
                   closeSeen, nframes, pendingsLock, dispatch>>

\* read_from_ws: a text item arrives and handle_subscription parses it.  A
\* notification whose id is a number goes on to the registry; `as_u64().unwrap()`
\* panics on a number that is no u64; anything else goes on to
\* handle_pending_response.
read_from_ws(msg) ==
    /\ driver = "open"
    /\ dispatch = AtRead
    /\ nframes < MaxFrames
    /\ IF msg.kind = "NotifBadNum"
       THEN /\ driver' = "ended"
            /\ outbound' = <<>>
            /\ nframes' = nframes + 1
            /\ UNCHANGED dispatch
       ELSE /\ dispatch' = [at |-> IF msg.kind = "Notif"
                                   THEN "handle_subscription"
                                   ELSE "handle_pending_response",
                            msg |-> msg, caller |-> NoCaller]
            /\ UNCHANGED <<driver, outbound, nframes>>
    /\ last' = Op("dispatch", NoFrame)
    /\ UNCHANGED <<nextId, pendings, subscriptions, wire, callerVars,
                   sinkVars, closeSeen, pendingsLock, subscriptionsLock>>

\* handle_subscription: subscriptions.lock() in the scrutinee of the `if let`.
handle_subscription_lock ==
    /\ dispatch.at = "handle_subscription"
    /\ subscriptionsLock = NoTask
    /\ subscriptionsLock' = DriverTask
    /\ dispatch' = [dispatch EXCEPT !.at = "subscription_locked"]
    /\ last' = Op("dispatch", NoFrame)
    /\ UNCHANGED <<driver, nextId, pendings, subscriptions, outbound, wire,
                   callerVars, sinkVars, closeSeen, nframes, pendingsLock>>

\* handle_subscription: .get(&id) under the guard.
handle_subscription_get ==
    /\ dispatch.at = "subscription_locked"
    /\ dispatch' = [dispatch EXCEPT !.at = "subscription_send"]
    /\ last' = Op("dispatch", NoFrame)
    /\ UNCHANGED <<driver, nextId, pendings, subscriptions, outbound, wire,
                   callerVars, sinkVars, closeSeen, nframes, pendingsLock,
                   subscriptionsLock>>

\* handle_subscription: the body of the `if let`, still under the guard:
\* stream.unbounded_send(..).expect(..), or the warning of the else branch.
\* The guard is dropped when the `if let` ends or when the panic unwinds.
handle_subscription_send ==
    /\ dispatch.at = "subscription_send"
    /\ IF SubscriptionPanics(dispatch.msg)
       THEN /\ driver' = "ended"
            /\ outbound' = <<>>
            /\ nframes' = nframes + 1
            /\ dispatch' = AtRead
            /\ UNCHANGED queue
       ELSE /\ queue' = QueueAfterSubscription(dispatch.msg)
            /\ dispatch' = [dispatch EXCEPT !.at = "handle_pending_response"]
            /\ UNCHANGED <<driver, outbound, nframes>>
    /\ subscriptionsLock' = NoTask
    /\ last' = Op("dispatch", NoFrame)
    /\ UNCHANGED <<nextId, pendings, subscriptions, wire, callerVars,
                   nextSink, sinkId, sender, got, eos, handleDropped,
                   closeSeen, pendingsLock>>

\* handle_pending_response: pendings.lock() in the scrutinee of the `if let`.
handle_pending_response_lock ==
    /\ dispatch.at = "handle_pending_response"
    /\ pendingsLock = NoTask
    /\ pendingsLock' = DriverTask
    /\ dispatch' = [dispatch EXCEPT !.at = "pending_locked"]
    /\ last' = Op("dispatch", NoFrame)
    /\ UNCHANGED <<driver, nextId, pendings, subscriptions, outbound, wire,
                   callerVars, sinkVars, closeSeen, nframes,
                   subscriptionsLock>>

\* handle_pending_response: .remove(&id) under the guard.
handle_pending_response_remove ==
    /\ dispatch.at = "pending_locked"
    /\ pendings' = PendingsAfterResponse(dispatch.msg)
    /\ dispatch' = [dispatch EXCEPT !.at = "pending_send",
                                    !.caller = pendings[ResponseId(dispatch.msg)]]
    /\ last' = Op("dispatch", NoFrame)
    /\ UNCHANGED <<driver, nextId, subscriptions, outbound, wire, callerVars,
                   sinkVars, closeSeen, nframes, pendingsLock,
                   subscriptionsLock>>

\* handle_pending_response: the body of the `if let`, still under the guard:
\* request.send(response).  The guard is dropped when the `if let` ends and
\* read_from_ws goes back to the stream.
handle_pending_response_send ==
    /\ dispatch.at = "pending_send"
    /\ pc' = PcAfterSend(dispatch.caller)
    /\ result' = ResultAfterSend(dispatch.caller, dispatch.msg)
    /\ pendingsLock' = NoTask
    /\ dispatch' = AtRead
    /\ nframes' = nframes + 1
    /\ last' = Op("dispatch", NoFrame)
    /\ UNCHANGED <<driver, nextId, pendings, subscriptions, outbound, wire,
                   callId, sinkVars, closeSeen, subscriptionsLock>>

\* ---- Specifications ----

\* The facade's calls against the driver.
NextCalls ==
    \/ \E c \in Callers : prepare(c)
    \/ \E c \in Callers, id \in Ids : send_request_register(c, id)
    \/ \E c \in Callers : send_request_enqueue(c)
    \/ \E c \in Callers : abandon(c)
    \/ handshake_ok
    \/ handshake_fail
    \/ \E msg \in InFrames : handle_incoming_msg(msg)
    \/ stream_read_error
    \/ stream_end
    \/ write_to_ws
    \/ write_fail

SpecCalls == Init /\ [][NextCalls]_vars

\* The scheduling the tokio runtime provides: the spawned ws_task and every
\* caller that can run are polled; nobody is obliged to start or abandon a
\* call, and the peer is not obliged to keep the stream open.
FairnessCalls ==
    /\ WF_vars(handshake_ok \/ handshake_fail)
    /\ WF_vars(\E msg \in InFrames : handle_incoming_msg(msg))
    /\ WF_vars(write_to_ws)
    /\ \A c \in Callers : WF_vars(send_request_enqueue(c))

FairCalls == SpecCalls /\ FairnessCalls

\* Subscriptions and their consumers against the driver.
NextSubs ==
    \/ \E id \in SubIds : subscribe(id)
    \/ \E id \in SubIds : unsubscribe(id)
    \/ \E s \in Sinks : consumer_next(s)
    \/ \E s \in Sinks : consumer_drop(s)
    \/ handshake_ok
    \/ handshake_fail
    \/ \E msg \in InFrames : handle_incoming_msg(msg)
    \/ stream_read_error
    \/ stream_end
    \/ write_to_ws
    \/ write_fail

SpecSubs == Init /\ [][NextSubs]_vars

\* One caller and one subscription, with its consumer, against the driver.
FirstCaller == {1}
FirstSink == {1}

Next ==
    \/ \E c \in FirstCaller : prepare(c)
    \/ \E c \in FirstCaller, id \in Ids : send_request_register(c, id)
    \/ \E c \in FirstCaller : send_request_enqueue(c)
    \/ \E c \in FirstCaller : abandon(c)
    \/ \E id \in SubIds : nextSink \in FirstSink /\ subscribe(id)
    \/ \E id \in SubIds : unsubscribe(id)
    \/ \E s \in FirstSink : consumer_next(s)
    \/ \E s \in FirstSink : consumer_drop(s)
    \/ handshake_ok
    \/ handshake_fail
    \/ \E msg \in InFrames : handle_incoming_msg(msg)
    \/ stream_read_error
    \/ stream_end
    \/ write_to_ws
    \/ write_fail

Spec == Init /\ [][Next]_vars

\* send, subscribe, unsubscribe and the inbound dispatch, guard by guard.
\* ws_task is one task: its write lane and the end of its stream are only
\* reached while read_from_ws is suspended at the stream.
NextLocks ==
    \/ \E c \in Callers : prepare(c)
    \/ \E c \in Callers : send_request_lock(c)
    \/ \E c \in Callers : send_request_insert(c)
    \/ \E c \in Callers : send_request_enqueue(c)
    \/ subscriptions_lock
    \/ \E id \in SubIds : nextSink \in FirstSink /\ subscribe_insert(id)
    \/ \E id \in SubIds : unsubscribe_remove(id)
    \/ \E s \in FirstSink : consumer_drop(s)
    \/ handshake_ok
    \/ \E msg \in TextFrames : read_from_ws(msg)
    \/ handle_subscription_lock
    \/ handle_subscription_get
    \/ handle_subscription_send
    \/ handle_pending_response_lock
    \/ handle_pending_response_remove
    \/ handle_pending_response_send
    \/ dispatch = AtRead /\ stream_end
    \/ dispatch = AtRead /\ write_to_ws

SpecLocks == Init /\ [][NextLocks]_vars

TypeOK ==
    /\ driver \in {"connecting", "open", "ended", "handshake_failed"}
    /\ nextId \in 1..(NumCallers + 1)
    /\ pendings \in [Ids -> Callers \cup {NoCaller}]
    /\ subscriptions \in [NotifIds -> Sinks \cup {NoSink}]
    /\ pc \in [Callers -> {"idle", "prepared", "registered", "awaiting",
                           "returned", "panicked", "abandoned"}]
    /\ sender \in [Sinks -> {"none", "live", "replaced", "removed"}]
    /\ nextSink \in 1..(MaxSinks + 1)
    /\ nframes \in 0..MaxFrames
    /\ pendingsLock \in Callers \cup {NoTask, DriverTask}
    /\ subscriptionsLock \in {NoTask, DriverTask, PubsubTask}
    /\ dispatch.at \in {"read", "handle_subscription", "subscription_locked",
                        "subscription_send", "handle_pending_response",
                        "pending_locked", "pending_send"}

\* ---- Claims ----

CallFrame(i) == Frame("Call", i, 0)
OnWire(k) == \E n \in 1..Len(wire) : wire[n].kind = k

\* C1: every call whose id was handed out by prepare completes only with the
\* response carrying its own id, and a response arriving for an awaiting call
\* completes exactly that call, whatever the order of arrival.
C1_OwnResponseOnly ==
    [][\A c \in Callers :
        /\ (callId'[c] # 0 /\ result'[c] \notin {NoResult, Canceled})
            => /\ result'[c].kind \in {"RespSingle", "RespBatch"}
               /\ result'[c].id = callId'[c]
        /\ ( /\ last'.op = "incoming"
             /\ last'.msg.kind = "RespSingle"
             /\ last'.msg.id = callId[c]
             /\ callId[c] # 0
             /\ pendings[callId[c]] = c
             /\ pc[c] = "awaiting" )
            => /\ pc'[c] = "returned"
               /\ result'[c] = Frame("RespSingle", callId[c], 0)
               /\ \A d \in Callers \ {c} : pc'[d] = pc[d] /\ result'[d] = result[d]
      ]_vars

\* Calls 1 and 2 were written in that order, the response of call 2 arrived
\* first, and each caller holds its own response.
C1_Witness ==
    /\ Len(wire) >= 2 /\ wire[1] = CallFrame(1) /\ wire[2] = CallFrame(2)
    /\ \A c \in {1, 2} : /\ pc[c] = "returned"
                         /\ callId[c] = c
                         /\ result[c] = Frame("RespSingle", c, 0)
    /\ last.op = "incoming" /\ last.msg.kind = "RespSingle" /\ last.msg.id = 1
    /\ nframes = 2

\* C2: once the stream has ended and the driver with it, no call stays
\* suspended: every call that is awaiting at that moment leaves its await.
C2_AwaitingFailsAfterDriverEnd ==
    \A c \in Callers :
        (driver = "ended" /\ last.op = "stream_end" /\ pc[c] = "awaiting")
            ~> (pc[c] # "awaiting")

\* C3: a send issued after the driver has ended registers no entry in the
\* correlator and enqueues no frame.
C3_LateSendRegistersNothing ==
    [][driver = "ended" => (pendings' = pendings /\ outbound' = outbound)]_vars

\* C4: after a failed handshake no send stays suspended.
C4_NoSendSuspendedAfterHandshakeFailure ==
    \A c \in Callers :
        (driver = "handshake_failed" /\ pc[c] = "awaiting") ~> (pc[c] # "awaiting")

\* C5: when the stream ends after a close frame was handled and the driver
\* stops, the echoed close frame has been written to the wire.
C5_EchoWrittenBeforeDriverStops ==
    (driver = "ended" /\ closeSeen /\ last.op = "stream_end") => OnWire("Close")

\* C6: a response whose id is not registered changes neither the correlator
\* nor any caller, and leaves the driver running.
C6_UnknownResponseHasNoEffect ==
    [][( /\ last'.op = "incoming"
         /\ last'.msg.kind \in {"RespSingle", "RespBatch"}
         /\ pendings[last'.msg.id] = NoCaller )
        => (pendings' = pendings /\ pc' = pc /\ result' = result
            /\ driver' = driver)
      ]_vars

\* Call 1 was resolved by a first response; a second response for id 1 has
\* just been handled while call 2 and the call under id 0 stay pending.
C6_Witness ==
    /\ last.op = "incoming" /\ last.msg.kind = "RespSingle" /\ last.msg.id = 1
    /\ pc[1] = "returned" /\ result[1] = Frame("RespBatch", 1, 0)
    /\ pendings[1] = NoCaller
    /\ pc[2] = "awaiting" /\ pendings[callId[2]] = 2
    /\ driver = "open"

\* C7: a notification for an id with no registered sink appends to no channel,
\* completes and removes no pending call, enqueues nothing and leaves the
\* driver running.
C7_UnknownNotificationHasNoEffect ==
    [][( /\ last'.op = "incoming"
         /\ last'.msg.kind = "Notif"
         /\ subscriptions[last'.msg.id] = NoSink )
        => (queue' = queue /\ pendings' = pendings /\ pc' = pc
            /\ result' = result /\ outbound' = outbound /\ driver' = driver)
      ]_vars

\* C8: the registry binds an id to the channel of the latest subscribe for it,
\* a notification is appended to the channel the registry binds its id to and
\* to no other, and a channel that is no longer bound is never appended to.
C8_NewestSinkOnly ==
    [][/\ \A i \in SubIds : \A s \in Sinks :
            (subscriptions'[i] # NoSink /\ s < nextSink' /\ sinkId'[s] = i)
                => s <= subscriptions'[i]
       /\ \A s \in Sinks : sender[s] = "replaced" => Len(queue'[s]) <= Len(queue[s])
       /\ ( /\ last'.op = "incoming"
            /\ last'.msg.kind = "Notif"
            /\ subscriptions[last'.msg.id] # NoSink
            /\ driver' = "open" )
           => queue' = [queue EXCEPT ![subscriptions[last'.msg.id]] =
                                            Append(@, last'.msg.val)]
      ]_vars

\* Channel 1 was replaced by channel 2 under the same id, its consumer is
\* still there, and the notification just handled went to channel 2 only.
C8_Witness ==
    /\ sender[1] = "replaced" /\ sender[2] = "live"
    /\ sinkId[1] = sinkId[2] /\ subscriptions[sinkId[2]] = 2
    /\ ~handleDropped[1] /\ ~eos[1]
    /\ last.op = "incoming" /\ last.msg.kind = "Notif" /\ last.msg.id = sinkId[2]
    /\ queue[2] = <<last.msg.val>> /\ queue[1] = <<>> /\ got[1] = <<>>

\* C9 as claimed: the consumer of a replaced channel never observes
\* end-of-stream.
C9_ReplacedConsumerNeverEnds ==
    \A s \in Sinks : sender[s] = "replaced" => ~eos[s]

\* C9 as amended: a replaced channel is never appended to again, and once its
\* buffer is drained the next poll of its consumer reports end-of-stream.
C9_ReplacedConsumerEnds ==
    [][\A s \in Sinks :
        /\ sender[s] = "replaced" => Len(queue'[s]) <= Len(queue[s])
        /\ ( /\ last'.op = "next" /\ last'.msg.val = s
             /\ sender[s] = "replaced"
             /\ queue[s] = <<>> )
            => eos'[s]
      ]_vars

\* The consumer of a replaced channel pulled the value dispatched before the
\* replacement and then observed end-of-stream.
C9_Witness ==
    \E s \in Sinks : /\ sender[s] = "replaced" /\ eos[s] /\ got[s] # <<>>
                     /\ last.op = "next" /\ last.msg.val = s

\* C10: a channel removed by unsubscribe is never appended to again, and a
\* notification whose id is not bound changes no channel.
C10_NothingAfterUnsubscribe ==
    [][/\ \A s \in Sinks : sender[s] = "removed" => Len(queue'[s]) <= Len(queue[s])
       /\ \A i \in SubIds : \A s \in Sinks :
            (last'.op = "unsubscribe" /\ last'.msg.id = i /\ subscriptions[i] = s)
                => (subscriptions'[i] = NoSink /\ sender'[s] = "removed")
       /\ ( /\ last'.op = "incoming"
            /\ last'.msg.kind = "Notif"
            /\ subscriptions[last'.msg.id] = NoSink )
           => queue' = queue
      ]_vars

\* The id of a removed channel is unbound, its consumer is still there, and a
\* notification for that id has just been handled without reaching it.
C10_Witness ==
    \E s \in Sinks :
        /\ sender[s] = "removed" /\ ~handleDropped[s] /\ ~eos[s]
        /\ subscriptions[sinkId[s]] = NoSink
        /\ last.op = "incoming" /\ last.msg.kind = "Notif"
        /\ last.msg.id = sinkId[s]
        /\ queue[s] = <<>> /\ got[s] = <<>>
        /\ driver = "open"

C12_PingAnsweredByOnePong ==
    [][(last'.op = "incoming" /\ last'.msg.kind = "Ping")
        => /\ outbound' = Append(outbound, Frame("Pong", 0, last'.msg.val))
           /\ pendings' = pendings /\ pc' = pc /\ result' = result
           /\ subscriptions' = subscriptions /\ sender' = sender
           /\ queue' = queue /\ driver' = driver
      ]_vars

\* A ping has just been handled while a call is pending and a sink is
\* registered; its pong is the newest frame of the writer channel.
C12_Witness ==
    /\ last.op = "incoming" /\ last.msg.kind = "Ping"
    /\ outbound # <<>>
    /\ outbound[Len(outbound)] = Frame("Pong", 0, last.msg.val)
    /\ pc[1] = "awaiting" /\ pendings[callId[1]] = 1
    /\ sender[1] = "live" /\ subscriptions[sinkId[1]] = 1

\* C13: the ids prepare hands out start at 1, no two callers hold the same
\* one, and each allocation returns an id greater than every id handed out
\* before it.
C13_PreparedIdsDistinctIncreasing ==
    [][/\ \A c \in Callers : pc'[c] = "prepared" => callId'[c] >= 1
       /\ \A c, d \in Callers :
            (c # d /\ pc'[c] = "prepared" /\ callId'[d] # 0)
                => callId'[c] # callId'[d]
       /\ \A c \in Callers :
            (pc[c] = "idle" /\ pc'[c] = "prepared")
                => \A d \in Callers \ {c} : callId[d] < callId'[c]
      ]_vars

\* Both callers have called prepare and neither has registered yet: they hold
\* the ids 1 and 2.
C13_Witness ==
    /\ pc[1] = "prepared" /\ pc[2] = "prepared"
    /\ callId[1] = 1 /\ callId[2] = 2
    /\ nextId = 3

\* The values dispatched to channel s, in the order its consumer sees them:
\* those it has pulled, then those still buffered.
Delivered(s) == got[s] \o queue[s]

\* C14: while the consumer holds its handle, a dispatch to its channel adds
\* the value at the end of what the consumer sees, a pull hands it the oldest
\* buffered value, and no other step changes what it sees: the consumer gets
\* the values in dispatch order, none lost and none twice.
C14_DeliveredInDispatchOrder ==
    [][\A s \in Sinks : ~handleDropped'[s] =>
        /\ IF /\ last'.op = "incoming" /\ last'.msg.kind = "Notif"
              /\ subscriptions[last'.msg.id] = s
           THEN Delivered(s)' = Append(Delivered(s), last'.msg.val)
           ELSE Delivered(s)' = Delivered(s)
        /\ (last'.op = "next" /\ last'.msg.val = s /\ queue[s] # <<>>)
            => (got'[s] = Append(got[s], Head(queue[s])) /\ queue'[s] = Tail(queue[s]))
        /\ \A m, n \in 1..Len(Delivered(s)') :
            m < n => Delivered(s)'[m] < Delivered(s)'[n]
      ]_vars

\* Two notifications were dispatched to a registered channel and its consumer
\* has pulled both, the older one first.
C14_Witness ==
    \E s \in Sinks :
        /\ sender[s] = "live" /\ ~handleDropped[s]
        /\ Len(got[s]) = 2 /\ got[s][1] < got[s][2]
        /\ queue[s] = <<>>
        /\ last.op = "next" /\ last.msg.val = s

\* C15: a response for an entry whose caller has abandoned its await removes
\* the entry and changes nothing else: no caller, no other entry, not the
\* writer channel, and the driver keeps running.
C15_LateResponseDiscarded ==
    [][\A c \in Callers :
        ( /\ last'.op = "incoming"
          /\ last'.msg.kind \in {"RespSingle", "RespBatch"}
          /\ pendings[last'.msg.id] = c
          /\ pc[c] = "abandoned" )
        => /\ pendings' = [pendings EXCEPT ![last'.msg.id] = NoCaller]
           /\ pc' = pc /\ result' = result
           /\ outbound' = outbound /\ driver' = driver
      ]_vars

\* The first frame handled was the response of a call whose caller had
\* abandoned it: the entry is gone, the caller got nothing and the other
\* call is still pending.
C15_Witness ==
    /\ pc[1] = "abandoned" /\ callId[1] = 1 /\ result[1] = NoResult
    /\ pendings[1] = NoCaller
    /\ last.op = "incoming" /\ last.msg.kind = "RespSingle" /\ last.msg.id = 1
    /\ nframes = 1
    /\ pc[2] = "awaiting" /\ pendings[callId[2]] = 2
    /\ driver = "open"

\* C16: abandoning the await of a send leaves its entry in the correlator,
\* and the entry stays in every later step but the one that handles a
\* response carrying its id.
C16_AbandonedEntryStays ==
    [][\A c \in Callers :
        /\ (pc[c] = "awaiting" /\ pc'[c] = "abandoned") => pendings' = pendings
        /\ ( /\ pc[c] = "abandoned" /\ callId[c] # 0
             /\ pendings[callId[c]] = c )
            => \/ pendings'[callId[c]] = c
               \/ /\ last'.op = "incoming"
                  /\ last'.msg.kind \in {"RespSingle", "RespBatch"}
                  /\ last'.msg.id = callId[c]
      ]_vars

\* A send was abandoned, frames that do not answer it were handled, the
\* stream has ended, and its entry is still registered.
C16_Witness ==
    \E c \in Callers :
        /\ pc[c] = "abandoned" /\ callId[c] # 0
        /\ pendings[callId[c]] = c
        /\ nframes = MaxFrames
        /\ driver = "ended" /\ last.op = "stream_end"

\* C17: handling a notification leaves the driver running, whatever the
\* registry binds its id to and whether or not the consumer still holds the
\* stream of that channel.
C17_NotificationKeepsDriverRunning ==
    [][(last'.op = "incoming" /\ last'.msg.kind = "Notif")
        => driver' = driver
      ]_vars

\* C19: a text frame that parses neither as a notification nor as a response
\* completes and removes no pending call, appends to no channel and leaves
\* the driver running.
C19_UndecodableFrameDropped ==
    [][(last'.op = "incoming" /\ last'.msg.kind = "Garbage")
        => /\ pendings' = pendings /\ pc' = pc /\ result' = result
           /\ queue' = queue /\ driver' = driver
      ]_vars

\* C18: whenever the Call frame of a send is in the writer channel or has been
\* written to the socket and the send is still waiting for its response, its
\* id is registered in the correlator with the sender of that send.
C18_RegisteredBeforeEnqueued ==
    \A c \in Callers :
        ( /\ callId[c] # 0 /\ pc[c] = "awaiting"
          /\ \/ \E n \in 1..Len(outbound) : outbound[n] = CallFrame(callId[c])
             \/ \E n \in 1..Len(wire) : wire[n] = CallFrame(callId[c]) )
        => pendings[callId[c]] = c

\* The Call frames of two sends are on the socket, the response of the second
\* has been handled and the first is still waiting with its id registered.
C18_Witness ==
    /\ pc[1] = "awaiting" /\ callId[1] = 1 /\ pendings[1] = 1
    /\ \E n \in 1..Len(wire) : wire[n] = CallFrame(1)
    /\ \E n \in 1..Len(wire) : wire[n] = CallFrame(2)
    /\ pc[2] = "returned" /\ callId[2] = 2
    /\ last.op = "incoming" /\ last.msg.kind = "RespSingle" /\ last.msg.id = 2

\* C20 (as stated): each mutex is held for one map operation only, so a guard
\* ws_task holds is one whose map operation is still to come; no task is at
\* an await point while it holds a guard, no task holds both guards, and the
\* holder of a guard can always take the step that drops it.
C20_GuardSpansOneMapOperation ==
    /\ \A c \in Callers : pendingsLock = c => pc[c] = "prepared"
    /\ (dispatch = AtRead \/ driver # "open")
        => (pendingsLock # DriverTask /\ subscriptionsLock # DriverTask)
    /\ ~(pendingsLock = DriverTask /\ subscriptionsLock = DriverTask)
    /\ subscriptionsLock = DriverTask => dispatch.at = "subscription_locked"
    /\ pendingsLock = DriverTask => dispatch.at = "pending_locked"

\* C20 (amended): a guard taken by send, subscribe or unsubscribe spans one
\* map operation; a guard taken by the inbound dispatch spans the map
\* operation and the channel send that follows it.  No task is at an await
\* point while it holds a guard, no task holds both guards, and the holder of
\* a guard can always take the step that drops it.
C20_GuardsNeverBlock ==
    /\ \A c \in Callers :
          pendingsLock = c
            => (pc[c] = "prepared" /\ ENABLED send_request_insert(c))
    /\ (dispatch = AtRead \/ driver # "open")
        => (pendingsLock # DriverTask /\ subscriptionsLock # DriverTask)
    /\ ~(pendingsLock = DriverTask /\ subscriptionsLock = DriverTask)
    /\ subscriptionsLock = DriverTask
        => ENABLED (handle_subscription_get \/ handle_subscription_send)
    /\ pendingsLock = DriverTask
        => ENABLED (handle_pending_response_remove
                    \/ handle_pending_response_send)
    /\ subscriptionsLock = PubsubTask
        => ENABLED (\E id \in SubIds : unsubscribe_remove(id))

\* ws_task holds the guard of pendings after its remove, about to complete
\* the first caller, while the second caller is at its insert and another
\* thread holds the guard of subscriptions.
C20_Witness ==
    /\ pendingsLock = DriverTask
    /\ dispatch.at = "pending_send" /\ dispatch.caller = 1
    /\ pc[1] = "awaiting" /\ pc[2] = "prepared"
    /\ subscriptionsLock = PubsubTask

\* C21: the frames written to the socket followed by the frames still in the
\* writer channel are the enqueued frames in enqueue order: a step either
\* appends one frame at the end of the channel, or moves the oldest queued
\* frame to the end of the written ones, or (the driver ending) discards the
\* queued ones; written frames are never changed, reordered or repeated.
C21_WrittenInEnqueueOrder ==
    [][\/ wire' = wire /\ outbound' = outbound
       \/ wire' = wire /\ \E f \in {CallFrame(i) : i \in Ids}
                                 \cup {Frame("Close", 0, 0)}
                                 \cup {Frame("Pong", 0, v) : v \in 1..MaxFrames} :
                             outbound' = Append(outbound, f)
       \/ /\ outbound # <<>>
          /\ wire' = Append(wire, Head(outbound))
          /\ outbound' = Tail(outbound)
       \/ wire' = wire /\ outbound' = <<>> /\ driver' # "open"
      ]_vars

\* A pong enqueued by the inbound lane and then the Call frames of two sends
\* have been written in that order, the last of them in this step.
C21_Witness ==
    /\ wire = <<Frame("Pong", 0, 1), CallFrame(1), CallFrame(2)>>
    /\ outbound = <<>>
    /\ last.op = "write"

\* C22: an inbound pong and an inbound binary frame change neither the
\* correlator, nor any caller, nor the subscription registry and its
\* channels, nor the writer channel, and the driver keeps running.
C22_PongAndBinaryIgnored ==
    [][(last'.op = "incoming" /\ last'.msg.kind \in {"Pong", "Binary"})
        => /\ pendings' = pendings /\ pc' = pc /\ result' = result
           /\ subscriptions' = subscriptions /\ sender' = sender
           /\ queue' = queue /\ outbound' = outbound /\ wire' = wire
           /\ driver' = driver /\ closeSeen' = closeSeen
      ]_vars

\* A pong was handled while a call was pending, a subscription was registered
\* and a frame was waiting in the writer channel.
C22_Witness ==
    /\ last.op = "incoming" /\ last.msg.kind = "Pong"
    /\ pc[1] = "awaiting" /\ pendings[callId[1]] = 1
    /\ \E i \in SubIds : subscriptions[i] # NoSink
    /\ outbound # <<>>
    /\ driver = "open"

\* C23: unsubscribe leaves the buffered values in the channel; each later
\* poll of that channel hands out the oldest buffered value, and the first
\* poll that finds the buffer empty reports end-of-stream, never pending.
C23_DrainedThenEnded ==
    [][/\ last'.op = "unsubscribe" => (queue' = queue /\ got' = got)
       /\ \A s \in Sinks :
            ( /\ last'.op = "next" /\ last'.msg.val = s
              /\ sender[s] = "removed" )
            => IF queue[s] # <<>>
               THEN /\ got'[s] = Append(got[s], Head(queue[s]))
                    /\ queue'[s] = Tail(queue[s])
                    /\ ~eos'[s]
                    /\ last'.msg.kind = "value"
               ELSE /\ eos'[s]
                    /\ got'[s] = got[s]
                    /\ last'.msg.kind = "end"
      ]_vars

\* Two values were buffered when the subscription was removed; the consumer
\* has since pulled the first of them and the second is still to come.
C23_Witness ==
    /\ sender[1] = "removed"
    /\ got[1] = <<1>> /\ queue[1] = <<2>>
    /\ ~eos[1]
    /\ last.op = "next" /\ last.msg.kind = "value" /\ last.msg.val = 1

====
